---- MODULE Spec2Model ----
\* Model of assignment2/js/bookRooms.js: the two-stage room booking widget
\* (find-room validation, the chained room search, book-room validation and
\* the locally stored pending bookings).
\*
\* Text is modelled as a sequence of one-character strings, so that the
\* JavaScript string operations the code relies on (concatenation, the
\* relational operators on two strings, the numeric comparison of a string
\* with a number, trimming) are computed rather than assumed.  Room numbers,
\* prices and messages, which the code only copies and tests for equality,
\* are plain strings.
EXTENDS Integers, Sequences, FiniteSets, TLC

\* ------------------------------------------------------------------ bounds
MaxXmlBookings == 2     \* bookings in roomBookings.xml
MaxUnitBookings == 2    \* bookings handed to checkAvailable on its own
MaxStore == 2           \* pending bookings kept in the cookie
MaxRuns == 2            \* room searches started within one page load
MaxBindings == 2        \* calls of BookRooms.setup on one document

\* ------------------------------------------------------------------ text
\* The characters used, in increasing code-unit order (space, '-', digits, letter).
CharOrder == <<" ", "-", "0", "1", "2", "3", "4", "5", "6", "7", "8", "9", "a">>

DigitChars == <<"0", "1", "2", "3", "4", "5", "6", "7", "8", "9">>

Code(c) == CHOOSE i \in 1..Len(CharOrder) : CharOrder[i] = c

IsDigit(c) == \E i \in 1..Len(DigitChars) : DigitChars[i] = c

DigitValue(c) == (CHOOSE i \in 1..Len(DigitChars) : DigitChars[i] = c) - 1

\* a < b on two strings: comparison by code units, a proper prefix is smaller.
RECURSIVE StrLess(_, _)
StrLess(a, b) ==
    IF b = <<>> THEN FALSE
    ELSE IF a = <<>> THEN TRUE
    ELSE IF Head(a) = Head(b) THEN StrLess(Tail(a), Tail(b))
    ELSE Code(Head(a)) < Code(Head(b))

\* String(n) for a non-negative integer, as string concatenation converts it.
RECURSIVE NumToStr(_)
NumToStr(n) ==
    IF n < 10 THEN <<DigitChars[n + 1]>>
    ELSE NumToStr(n \div 10) \o <<DigitChars[(n % 10) + 1]>>

RECURSIVE TrimLeft(_)
TrimLeft(s) ==
    IF s = <<>> THEN s
    ELSE IF Head(s) = " " THEN TrimLeft(Tail(s))
    ELSE s

RECURSIVE TrimRight(_)
TrimRight(s) ==
    IF s = <<>> THEN s
    ELSE IF s[Len(s)] = " " THEN TrimRight(SubSeq(s, 1, Len(s) - 1))
    ELSE s

\* $.trim
Trim(s) == TrimRight(TrimLeft(s))

RECURSIVE DigitsValue(_)
DigitsValue(s) ==
    IF s = <<>> THEN 0
    ELSE 10 * DigitsValue(SubSeq(s, 1, Len(s) - 1)) + DigitValue(s[Len(s)])

\* Whether every character of s is a digit, s not empty.
IsDigits(s) == s # <<>> /\ \A i \in 1..Len(s) : IsDigit(s[i])

\* text < 10 where text is a string over the characters of CharOrder: the
\* string is converted to a number.  Surrounding blanks are dropped; blank
\* text converts to 0, digits to their decimal value, '-' followed by digits
\* to the negated value (never above 0), and anything else to NaN, for which
\* the comparison is false.
TextLessThanTen(text) ==
    LET t == Trim(text) IN
    IF t = <<>> THEN TRUE
    ELSE IF IsDigits(t) THEN DigitsValue(t) < 10
    ELSE IF Head(t) = "-" /\ IsDigits(Tail(t)) THEN -DigitsValue(Tail(t)) < 10
    ELSE FALSE

\* ------------------------------------------------------------------ dates
\* makeDateFromXML: xmlDate is a date node given by the texts of its day,
\* month and year elements.
makeDateFromXML(xmlDate) ==
    LET dd == IF TextLessThanTen(xmlDate.day) THEN <<"0">> \o xmlDate.day ELSE xmlDate.day
        mm == IF TextLessThanTen(xmlDate.month) THEN <<"0">> \o xmlDate.month ELSE xmlDate.month
    IN  xmlDate.year \o <<"-">> \o mm \o <<"-">> \o dd

\* getDateFromForm: the values of the three select elements, concatenated.
getDateFromForm(dayVal, monthVal, yearVal) ==
    yearVal \o <<"-">> \o monthVal \o <<"-">> \o dayVal

\* getTodaysDate: now is the clock reading, [date, month, year] as numbers,
\* month counted from 0 as Date.getMonth does.
getTodaysDate(now) ==
    LET d == now.date
        m == now.month + 1
        dd == IF d < 10 THEN <<"0">> \o NumToStr(d) ELSE NumToStr(d)
        mm == IF m < 10 THEN <<"0">> \o NumToStr(m) ELSE NumToStr(m)
    IN  NumToStr(now.year) \o <<"-">> \o mm \o <<"-">> \o dd

\* ------------------------------------------------------------------ availability
RECURSIVE checkAvailableFrom(_, _, _, _, _)
checkAvailableFrom(i, room, checkin, checkout, bookings) ==
    IF i > Len(bookings) THEN TRUE
    ELSE IF bookings[i].number = room
            /\ StrLess(bookings[i].checkin, checkout)
            /\ StrLess(checkin, bookings[i].checkout)
         THEN FALSE
    ELSE checkAvailableFrom(i + 1, room, checkin, checkout, bookings)

\* Mutant: the overlap test with <= and >=, so that a stay starting on the
\* day another ends counts as overlapping.
RECURSIVE checkAvailableInclusiveFrom(_, _, _, _, _)
checkAvailableInclusiveFrom(i, room, checkin, checkout, bookings) ==
    IF i > Len(bookings) THEN TRUE
    ELSE IF bookings[i].number = room
            /\ ~StrLess(checkout, bookings[i].checkin)
            /\ ~StrLess(bookings[i].checkout, checkin)
         THEN FALSE
    ELSE checkAvailableInclusiveFrom(i + 1, room, checkin, checkout, bookings)

checkAvailableInclusive(room, checkin, checkout, bookings) ==
    checkAvailableInclusiveFrom(1, room, checkin, checkout, bookings)

checkAvailable(room, checkin, checkout, bookings) ==
    checkAvailableFrom(1, room, checkin, checkout, bookings)

\* ------------------------------------------------------------------ loaders
\* $($(this).find(tag)[0]).text(): the text of the first matching child, or
\* the empty text when there is none.
FirstText(children) == IF children = <<>> THEN "" ELSE children[1]

\* $($(this).find("checkin")[0]) handed to makeDateFromXML: the first date
\* node, or an empty selection whose day, month and year texts are empty.
FirstDateNode(children) ==
    IF children = <<>> THEN [day |-> <<>>, month |-> <<>>, year |-> <<>>]
    ELSE children[1]

\* parseBookingXML: data is the sequence of booking elements of the document.
parseBookingXML(data) ==
    [i \in 1..Len(data) |->
        [number   |-> FirstText(data[i].number),
         checkin  |-> makeDateFromXML(FirstDateNode(data[i].checkin)),
         checkout |-> makeDateFromXML(FirstDateNode(data[i].checkout))]]

\* Mutant: the rooms collected in reverse document order.
parseRoomXMLReversed(data) ==
    [i \in 1..Len(data) |->
        [number |-> FirstText(data[Len(data) + 1 - i].number),
         type   |-> FirstText(data[Len(data) + 1 - i].roomType),
         price  |-> FirstText(data[Len(data) + 1 - i].pricePerNight)]]

\* parseRoomXML: data is the sequence of hotelRoom elements of the document.
parseRoomXML(data) ==
    [i \in 1..Len(data) |->
        [number |-> FirstText(data[i].number),
         type   |-> FirstText(data[i].roomType),
         price  |-> FirstText(data[i].pricePerNight)]]

\* The option element appended for a room: value room.number, text
\* room.number + ': ' + room.price (kept as its three parts).
RoomOption(room) ==
    [value |-> room.number, text |-> <<room.number, ": ", room.price>>]

\* rooms.forEach(...) of the last callback: the options appended, in order.
RECURSIVE AppendAvailableFrom(_, _, _, _, _, _)
AppendAvailableFrom(i, rooms, checkin, checkout, bookings, selection) ==
    IF i > Len(rooms) THEN selection
    ELSE AppendAvailableFrom(i + 1, rooms, checkin, checkout, bookings,
            IF checkAvailable(rooms[i].number, checkin, checkout, bookings)
            THEN Append(selection, RoomOption(rooms[i]))
            ELSE selection)

AppendAvailable(rooms, checkin, checkout, bookings, selection) ==
    AppendAvailableFrom(1, rooms, checkin, checkout, bookings, selection)

\* ------------------------------------------------------------------ local store
\* loadLocalBookings and saveLocalBookings are called by submitBookRoom and
\* defined outside bookRooms.js; they are taken by their contract, load
\* returning the list last saved.  The cookie holding the pending bookings:
\* absent, or a stored list.
NoCookie == [present |-> FALSE, list |-> <<>>]

loadLocalBookings(stored) == IF stored.present THEN stored.list ELSE <<>>

saveLocalBookings(list) == [present |-> TRUE, list |-> list]

\* ------------------------------------------------------------------ validators
MsgNoCheckin == "You must enter a check in date."
MsgPast == "You can't book in the past."
MsgNoCheckout == "You must enter a check out date."
MsgBefore == "You can't check out before you check in."
MsgOneNight == "You must stay at least one night."
MsgNoName == "You must enter a booking name"

\* Mutant: no test for checkout === checkin.
submitFindRoomNoEqualTest(checkin, checkout, today) ==
    LET checkinMsg ==
            IF checkin = <<>> THEN MsgNoCheckin
            ELSE IF StrLess(checkin, today) THEN MsgPast
            ELSE ""
        checkoutMsg ==
            IF checkout = <<>> THEN MsgNoCheckout
            ELSE IF StrLess(checkout, checkin) THEN MsgBefore
            ELSE ""
    IN  [checkinError  |-> checkinMsg,
         checkoutError |-> checkoutMsg,
         isValid       |-> (checkinMsg = "" /\ checkoutMsg = ""),
         ret           |-> "false"]

\* Mutant: the handler returns whether the dates were valid.
submitFindRoomReturnsValid(checkin, checkout, today) ==
    LET checkinMsg ==
            IF checkin = <<>> THEN MsgNoCheckin
            ELSE IF StrLess(checkin, today) THEN MsgPast
            ELSE ""
        checkoutMsg ==
            IF checkout = <<>> THEN MsgNoCheckout
            ELSE IF StrLess(checkout, checkin) THEN MsgBefore
            ELSE IF checkout = checkin THEN MsgOneNight
            ELSE ""
    IN  [checkinError  |-> checkinMsg,
         checkoutError |-> checkoutMsg,
         isValid       |-> (checkinMsg = "" /\ checkoutMsg = ""),
         ret           |-> IF checkinMsg = "" /\ checkoutMsg = "" THEN "true" ELSE "false"]

\* submitFindRoom, as a function of the two dates read from the form and of
\* today's date: the two error texts, whether the search is started, and the
\* value returned to the submit event.
submitFindRoom(checkin, checkout, today) ==
    LET checkinMsg ==
            IF checkin = <<>> THEN MsgNoCheckin
            ELSE IF StrLess(checkin, today) THEN MsgPast
            ELSE ""
        checkoutMsg ==
            IF checkout = <<>> THEN MsgNoCheckout
            ELSE IF StrLess(checkout, checkin) THEN MsgBefore
            ELSE IF checkout = checkin THEN MsgOneNight
            ELSE ""
    IN  [checkinError  |-> checkinMsg,
         checkoutError |-> checkoutMsg,
         isValid       |-> (checkinMsg = "" /\ checkoutMsg = ""),
         ret           |-> "false"]

\* Mutant: the name is tested without being trimmed.
submitBookRoomUntrimmed(number, checkin, checkout, nameVal, stored, defined) ==
    LET newBooking == [number |-> number, checkin |-> checkin,
                       checkout |-> checkout, name |-> Trim(nameVal)]
    IN  IF nameVal = <<>>
        THEN [nameError |-> MsgNoName, cookie |-> stored, ret |-> "false"]
        ELSE IF ~defined
        THEN [nameError |-> "", cookie |-> stored, ret |-> "threw"]
        ELSE [nameError |-> "",
              cookie    |-> saveLocalBookings(
                                Append(loadLocalBookings(stored), newBooking)),
              ret       |-> "true"]

\* submitBookRoom, as a function of the fields it reads, of the cookie and of
\* whether the page defines loadLocalBookings and saveLocalBookings: the name
\* error text, the cookie afterwards, and how the call ends: "false" or "true"
\* for the value returned, "threw" when the call of loadLocalBookings, a name
\* the page does not define, raises ReferenceError after the name error was
\* cleared and before anything is stored or returned.
submitBookRoom(number, checkin, checkout, nameVal, stored, defined) ==
    LET newBooking == [number |-> number, checkin |-> checkin,
                       checkout |-> checkout, name |-> Trim(nameVal)]
    IN  IF newBooking.name = <<>>
        THEN [nameError |-> MsgNoName, cookie |-> stored, ret |-> "false"]
        ELSE IF ~defined
        THEN [nameError |-> "", cookie |-> stored, ret |-> "threw"]
        ELSE [nameError |-> "",
              cookie    |-> saveLocalBookings(
                                Append(loadLocalBookings(stored), newBooking)),
              ret       |-> "true"]

\* ------------------------------------------------------------------ inputs
\* Every sequence over S of length at most n.
SeqsUpTo(S, n) == UNION {[1..k -> S] : k \in 0..n}

\* Values of the day, month and year selects of the find-room form.
FormDays == {<<"0", "5">>, <<"5">>, <<"1", "2">>, <<"2", "0">>}
FormMonths == {<<"0", "3">>}
FormYears == {<<"2", "0", "2", "6">>}

\* Clock readings (Date.getMonth counts from 0): 10 March 2026.
Clocks == {[date |-> 10, month |-> 2, year |-> 2026]}

XmlDate(d, m, y) == [day |-> d, month |-> m, year |-> y]

\* hotelRooms.xml: hotelRoom elements, each child given by its matching texts.
XmlRoom(n, t, p) == [number |-> <<n>>, roomType |-> <<t>>, pricePerNight |-> <<p>>]

RoomCatalogs ==
    { <<XmlRoom("101", "Single", "90.00"), XmlRoom("102", "Double", "120.00"),
        XmlRoom("201", "Suite", "200.00")>>,
      <<XmlRoom("201", "Suite", "200.00"), XmlRoom("101", "Single", "90.00")>> }

\* roomBookings.xml: booking elements.
XmlBooking(n, cin, cout) == [number |-> <<n>>, checkin |-> <<cin>>, checkout |-> <<cout>>]

XmlBookings ==
    << XmlBooking("101", XmlDate(<<"1", "2">>, <<"3">>, <<"2", "0", "2", "6">>),
                        XmlDate(<<"2", "0">>, <<"3">>, <<"2", "0", "2", "6">>)),
      XmlBooking("102", XmlDate(<<"5">>, <<"3">>, <<"2", "0", "2", "6">>),
                        XmlDate(<<"1", "2">>, <<"3">>, <<"2", "0", "2", "6">>)) >>

\* The elements of seq at the positions in keep, in their order.
RECURSIVE Selected(_, _)
Selected(seq, keep) ==
    IF seq = <<>> THEN <<>>
    ELSE (IF Len(seq) \in keep THEN Selected(SubSeq(seq, 1, Len(seq) - 1), keep)
                                     \o <<seq[Len(seq)]>>
          ELSE Selected(SubSeq(seq, 1, Len(seq) - 1), keep))

\* The bookings files served: up to MaxXmlBookings of the bookings above.
BookingFiles ==
    {Selected(XmlBookings, keep) :
        keep \in {k \in SUBSET (1..Len(XmlBookings)) : Cardinality(k) <= MaxXmlBookings}}

\* Texts typed into #bookingName: nothing, blanks only, a name, and a name
\* with blanks before and after.
Names == {<<>>, <<" ", " ">>, <<"a">>, <<" ", "a", " ", " ">>}

\* A pending booking already in the cookie when the page is first loaded.
EarlierBooking ==
    [number |-> "102", checkin |-> <<"2", "0", "2", "6", "-", "0", "2", "-", "0", "1">>,
     checkout |-> <<"2", "0", "2", "6", "-", "0", "2", "-", "0", "3">>, name |-> <<"a">>]

InitialCookies == {NoCookie, saveLocalBookings(<<>>), saveLocalBookings(<<EarlierBooking>>)}

\* $("#roomSelection").val(): the value of the selected option, null when the
\* list has no option.
NullValue == "null"

SelectableValues(selection) ==
    IF selection = <<>> THEN {NullValue}
    ELSE {selection[i].value : i \in 1..Len(selection)}

\* ------------------------------------------------------------------ state
VARIABLES
    now,              \* the system clock
    serverRooms,      \* xml/hotelRooms.xml as served
    serverBookings,   \* xml/roomBookings.xml as served
    checkinError,     \* text of #checkinError
    checkoutError,    \* text of #checkoutError
    nameError,        \* text of #nameError
    checkinDate,      \* value of the hidden #checkinDate
    checkoutDate,     \* value of the hidden #checkoutDate
    findFormDisabled, \* the inputs of #findRoomForm are disabled
    searchingShown,   \* #searchingForRooms is shown
    bookFormShown,    \* #bookRoomForm is shown
    handlers,         \* how many times each form's submit handler is bound
    roomSelection,    \* the options of #roomSelection
    runs,             \* the calls of setupBookRoom of this page load
    cookie,           \* the pending bookings cookie
    storeDefined,     \* the page defines loadLocalBookings and saveLocalBookings
    unloading,        \* a submit handler returned true: the form is being submitted
    lastSubmit,       \* the last submit event handled and what its handler returned
    call              \* a function applied on its own: name, arguments, result

vars == <<now, serverRooms, serverBookings, checkinError, checkoutError, nameError,
          checkinDate, checkoutDate, findFormDisabled, searchingShown, bookFormShown,
          handlers, roomSelection, runs, cookie, storeDefined, unloading, lastSubmit, call>>

serverVars == <<now, serverRooms, serverBookings, storeDefined>>

NoSubmit ==
    [form |-> "none", checkin |-> <<>>, checkout |-> <<>>, name |-> <<>>,
     number |-> "", ret |-> "none", started |-> FALSE, cookieBefore |-> NoCookie]

NoCall == [fn |-> "none", args |-> <<>>, result |-> <<>>]

\* A document as rendered, before any script has run: no submit handler bound.
NoHandlers == [findRoom |-> 0, bookRoom |-> 0]

\* pub.setup: hides #bookRoomForm and binds submitFindRoom and submitBookRoom
\* to the submit events of their forms, each once more; nothing else changes.
setup(bound) ==
    [bookFormShown |-> FALSE,
     handlers      |-> [findRoom |-> bound.findRoom + 1,
                        bookRoom |-> bound.bookRoom + 1]]

\* The document as first rendered, then pub.setup run once by
\* $(document).ready: only the first stage shown, no error text, no option in
\* the room list, no search started.
FreshDocument ==
    /\ checkinError = ""
    /\ checkoutError = ""
    /\ nameError = ""
    /\ checkinDate = <<>>
    /\ checkoutDate = <<>>
    /\ findFormDisabled = FALSE
    /\ searchingShown = FALSE
    /\ bookFormShown = setup(NoHandlers).bookFormShown
    /\ handlers = setup(NoHandlers).handlers
    /\ roomSelection = <<>>
    /\ runs = <<>>
    /\ unloading = FALSE
    /\ lastSubmit = NoSubmit

Init ==
    /\ now \in Clocks
    /\ serverRooms \in RoomCatalogs
    /\ serverBookings \in BookingFiles
    /\ storeDefined \in BOOLEAN
    /\ cookie \in IF storeDefined THEN InitialCookies ELSE {NoCookie}
    /\ call = NoCall
    /\ FreshDocument

\* ------------------------------------------------------------------ room search
\* Mutant: both requests issued at once, the bookings one not chained.
setupBookRoomUnchained(checkin, checkout) ==
    [pc |-> "bookings", checkin |-> checkin, checkout |-> checkout,
     roomsSet |-> FALSE, rooms |-> <<>>, bookingsSet |-> FALSE, bookings |-> <<>>]

\* setupBookRoom(checkin, checkout): the call's two local variables, still
\* unassigned, and the first request issued.
setupBookRoom(checkin, checkout) ==
    [pc |-> "rooms", checkin |-> checkin, checkout |-> checkout,
     roomsSet |-> FALSE, rooms |-> <<>>, bookingsSet |-> FALSE, bookings |-> <<>>]

\* success callback of the hotelRooms.xml request.
roomsSuccess(run, data) ==
    [run EXCEPT !.rooms = parseRoomXML(data), !.roomsSet = TRUE, !.pc = "roomsLoaded"]

\* done callback of the hotelRooms.xml request: issues the bookings request.
roomsDone(run) == [run EXCEPT !.pc = "bookings"]

\* success callback of the roomBookings.xml request.
bookingsSuccess(run, data) ==
    [run EXCEPT !.bookings = parseBookingXML(data), !.bookingsSet = TRUE,
                !.pc = "bookingsLoaded"]

\* done callback of the roomBookings.xml request, after its forEach.
bookingsDone(run) == [run EXCEPT !.pc = "done"]

\* A request that fails runs neither callback: no error handler is given.
requestFailed(run) == [run EXCEPT !.pc = "failed"]

\* Mutant: the form's inputs are left enabled.
findFormInputsLeftEnabled(isValid, was) == was

\* $("#findRoomForm :input").prop("disabled", true), under if (isValid).
findFormInputsDisabled(isValid, was) == was \/ isValid

pageVars == <<checkinError, checkoutError, nameError, checkinDate, checkoutDate,
              findFormDisabled, searchingShown, bookFormShown, handlers,
              roomSelection, runs,
              unloading, lastSubmit>>

\* One run of submitFindRoom on the page: st holds the elements it writes, the
\* searches started so far, and whether a handler of this event has already
\* returned false (which prevents the default submission).
findRoomHandled(checkin, checkout, today, st) ==
    LET r == submitFindRoom(checkin, checkout, today)
    IN  [checkinError     |-> r.checkinError,
         checkoutError    |-> r.checkoutError,
         checkinDate      |-> IF r.isValid THEN checkin ELSE st.checkinDate,
         checkoutDate     |-> IF r.isValid THEN checkout ELSE st.checkoutDate,
         findFormDisabled |-> findFormInputsDisabled(r.isValid, st.findFormDisabled),
         searchingShown   |-> (st.searchingShown \/ r.isValid),
         runs             |-> IF r.isValid
                              THEN Append(st.runs, setupBookRoom(checkin, checkout))
                              ELSE st.runs,
         ret              |-> r.ret,
         prevented        |-> (st.prevented \/ r.ret = "false")]

\* The handlers bound to the submit event of #findRoomForm run one after the
\* other, k of them.
RECURSIVE findRoomHandlers(_, _, _, _, _)
findRoomHandlers(k, checkin, checkout, today, st) ==
    IF k = 0 THEN st
    ELSE findRoomHandlers(k - 1, checkin, checkout, today,
                          findRoomHandled(checkin, checkout, today, st))

\* One run of submitBookRoom: st holds the name error, the cookie, how the
\* last handler ended, and whether one returned false.
bookRoomHandled(number, checkin, checkout, nameVal, defined, st) ==
    LET r == submitBookRoom(number, checkin, checkout, nameVal, st.cookie, defined)
    IN  [nameError |-> r.nameError,
         cookie    |-> r.cookie,
         ret       |-> r.ret,
         prevented |-> (st.prevented \/ r.ret = "false")]

\* The handlers bound to the submit event of #bookRoomForm run one after the
\* other; an exception thrown by one ends the dispatch, the others not run.
RECURSIVE bookRoomHandlers(_, _, _, _, _, _, _)
bookRoomHandlers(k, number, checkin, checkout, nameVal, defined, st) ==
    IF k = 0 \/ st.ret = "threw" THEN st
    ELSE bookRoomHandlers(k - 1, number, checkin, checkout, nameVal, defined,
            bookRoomHandled(number, checkin, checkout, nameVal, defined, st))

\* The submit event of #findRoomForm: every handler pub.setup bound to it runs
\* (one per call of pub.setup on this document); the default submission goes
\* on unless one of them returned false.  A form whose inputs are all
\* disabled cannot be submitted by the user.
SubmitFindRoom ==
    /\ ~unloading
    /\ handlers.findRoom >= 1
    /\ ~findFormDisabled
    /\ Len(runs) + handlers.findRoom <= MaxRuns
    /\ \E d1 \in FormDays, m1 \in FormMonths, y1 \in FormYears,
          d2 \in FormDays, m2 \in FormMonths, y2 \in FormYears :
        LET checkin == getDateFromForm(d1, m1, y1)
            checkout == getDateFromForm(d2, m2, y2)
            st == findRoomHandlers(handlers.findRoom, checkin, checkout,
                    getTodaysDate(now),
                    [checkinError |-> checkinError, checkoutError |-> checkoutError,
                     checkinDate |-> checkinDate, checkoutDate |-> checkoutDate,
                     findFormDisabled |-> findFormDisabled,
                     searchingShown |-> searchingShown, runs |-> runs,
                     ret |-> "none", prevented |-> FALSE])
        IN  /\ checkinError' = st.checkinError
            /\ checkoutError' = st.checkoutError
            /\ checkinDate' = st.checkinDate
            /\ checkoutDate' = st.checkoutDate
            /\ findFormDisabled' = st.findFormDisabled
            /\ searchingShown' = st.searchingShown
            /\ runs' = st.runs
            /\ unloading' = (unloading \/ ~st.prevented)
            /\ lastSubmit' = [form |-> "findRoom", checkin |-> checkin,
                              checkout |-> checkout, name |-> <<>>, number |-> "",
                              ret |-> st.ret, started |-> (Len(runs') > Len(runs)),
                              cookieBefore |-> cookie]
    /\ UNCHANGED <<serverVars, nameError, bookFormShown, handlers, roomSelection,
                   cookie, call>>

\* The submit event of #bookRoomForm: every handler bound to it runs.  A
\* hidden form cannot be submitted by the user.
SubmitBookRoom ==
    /\ ~unloading
    /\ handlers.bookRoom >= 1
    /\ bookFormShown
    /\ Len(loadLocalBookings(cookie)) + handlers.bookRoom <= MaxStore
    /\ \E nameVal \in Names, number \in SelectableValues(roomSelection) :
        LET st == bookRoomHandlers(handlers.bookRoom, number, checkinDate,
                    checkoutDate, nameVal, storeDefined,
                    [nameError |-> nameError, cookie |-> cookie,
                     ret |-> "none", prevented |-> FALSE])
        IN  /\ nameError' = st.nameError
            /\ cookie' = st.cookie
            /\ unloading' = (unloading \/ ~st.prevented)
            /\ lastSubmit' = [form |-> "bookRoom", checkin |-> checkinDate,
                              checkout |-> checkoutDate, name |-> nameVal,
                              number |-> number, ret |-> st.ret, started |-> FALSE,
                              cookieBefore |-> cookie]
    /\ UNCHANGED <<serverVars, checkinError, checkoutError, checkinDate, checkoutDate,
                   findFormDisabled, searchingShown, bookFormShown, handlers,
                   roomSelection, runs, call>>

\* BookRooms.setup(), the module's public function, called on the page in
\* use: the booking form is hidden and both handlers are bound once more.
\* The program itself never makes this call (its only call is at document
\* ready); it is a step of SpecApi alone.
Setup ==
    /\ ~unloading
    /\ handlers.findRoom < MaxBindings
    /\ bookFormShown' = setup(handlers).bookFormShown
    /\ handlers' = setup(handlers).handlers
    /\ UNCHANGED <<serverVars, checkinError, checkoutError, nameError, checkinDate,
                   checkoutDate, findFormDisabled, searchingShown, roomSelection,
                   runs, unloading, lastSubmit, cookie, call>>

\* A handler returned true, so the browser submits the form: the document is
\* replaced (no further event of the old one is handled), loaded again, and
\* $(document).ready runs pub.setup on it.  The cookie stays.
PageLoad ==
    /\ unloading
    /\ checkinError' = ""
    /\ checkoutError' = ""
    /\ nameError' = ""
    /\ checkinDate' = <<>>
    /\ checkoutDate' = <<>>
    /\ findFormDisabled' = FALSE
    /\ searchingShown' = FALSE
    /\ bookFormShown' = setup(NoHandlers).bookFormShown
    /\ handlers' = setup(NoHandlers).handlers
    /\ roomSelection' = <<>>
    /\ runs' = <<>>
    /\ unloading' = FALSE
    /\ lastSubmit' = NoSubmit
    /\ UNCHANGED <<serverVars, cookie, call>>

runVars == <<checkinError, checkoutError, nameError, checkinDate, checkoutDate,
             findFormDisabled, searchingShown, handlers, unloading, lastSubmit>>

\* The hotelRooms.xml request succeeds: jQuery runs the success callback and
\* then the chained done callback, one after the other in the same turn.
RoomsLoaded(i) ==
    /\ ~unloading
    /\ runs[i].pc = "rooms"
    /\ runs' = [runs EXCEPT ![i] = roomsDone(roomsSuccess(@, serverRooms))]
    /\ UNCHANGED <<serverVars, runVars, bookFormShown, roomSelection, cookie,
                   call>>

RoomsFail(i) ==
    /\ ~unloading
    /\ runs[i].pc = "rooms"
    /\ runs' = [runs EXCEPT ![i] = requestFailed(@)]
    /\ UNCHANGED <<serverVars, runVars, bookFormShown, roomSelection, cookie,
                   call>>

\* The roomBookings.xml request succeeds: the success callback, then the done
\* callback, which filters the rooms and shows the booking form.
BookingsLoaded(i) ==
    /\ ~unloading
    /\ runs[i].pc = "bookings"
    /\ LET loaded == bookingsSuccess(runs[i], serverBookings)
       IN  /\ roomSelection' = AppendAvailable(loaded.rooms, loaded.checkin,
                                   loaded.checkout, loaded.bookings, roomSelection)
           /\ bookFormShown' = TRUE
           /\ runs' = [runs EXCEPT ![i] = bookingsDone(loaded)]
    /\ UNCHANGED <<serverVars, runVars, cookie, call>>

BookingsFail(i) ==
    /\ ~unloading
    /\ runs[i].pc = "bookings"
    /\ runs' = [runs EXCEPT ![i] = requestFailed(@)]
    /\ UNCHANGED <<serverVars, runVars, bookFormShown, roomSelection, cookie,
                   call>>

\* One page load of the program: pub.setup has run once, at document ready.
Next ==
    \/ SubmitFindRoom
    \/ SubmitBookRoom
    \/ \E i \in 1..Len(runs) : RoomsLoaded(i)
    \/ \E i \in 1..Len(runs) : RoomsFail(i)
    \/ \E i \in 1..Len(runs) : BookingsLoaded(i)
    \/ \E i \in 1..Len(runs) : BookingsFail(i)

Spec == Init /\ [][Next]_vars

\* One page load on a page whose other scripts call the public BookRooms.setup
\* again: every behaviour of the program, and those with handlers bound more
\* than once.
NextApi == Next \/ Setup

SpecApi == Init /\ [][NextApi]_vars

\* Successive page loads against one server: each accepted booking submits
\* the form and the page is set up again.
VisitCatalog ==
    <<XmlRoom("101", "Single", "90.00"), XmlRoom("102", "Double", "120.00"),
      XmlRoom("201", "Suite", "200.00")>>

VisitBookings ==
    <<XmlBooking("101", XmlDate(<<"1", "2">>, <<"3">>, <<"2", "0", "2", "6">>),
                        XmlDate(<<"2", "0">>, <<"3">>, <<"2", "0", "2", "6">>))>>

InitVisits ==
    /\ Init
    /\ serverRooms = VisitCatalog
    /\ serverBookings = VisitBookings

NextVisits == Next \/ PageLoad

SpecVisits == InitVisits /\ [][NextVisits]_vars

\* ------------------------------------------------------------------ functions on their own
\* The date functions and checkAvailable applied to inputs drawn from bounded
\* sets; call records the function, its arguments and its result.
TwoDigits(n) == <<DigitChars[(n \div 10) + 1], DigitChars[(n % 10) + 1]>>

\* A day or month number as text: as written (5) and zero-padded (05).
NumberTexts(lo, hi) == {NumToStr(n) : n \in lo..hi} \cup {TwoDigits(n) : n \in lo..hi}

DayTexts == NumberTexts(1, 31)
MonthTexts == NumberTexts(1, 12)
YearTexts == {<<"2", "0", "2", "6">>}

UnitDates ==
    { <<"2", "0", "2", "4", "-", "0", "1", "-", "1", "0">>,
      <<"2", "0", "2", "4", "-", "0", "1", "-", "1", "5">>,
      <<"2", "0", "2", "4", "-", "0", "1", "-", "2", "0">> }

UnitRooms == {"101", "102", "103"}

UnitBookings ==
    [number : {"101", "102"}, checkin : UnitDates, checkout : UnitDates]

CallMakeDateFromXML ==
    /\ call = NoCall
    /\ \E d \in DayTexts, m \in MonthTexts, y \in YearTexts :
        call' = [fn |-> "makeDateFromXML", args |-> <<d, m, y>>,
                 result |-> makeDateFromXML(XmlDate(d, m, y))]
    /\ UNCHANGED <<serverVars, pageVars, cookie>>

CallGetDateFromForm ==
    /\ call = NoCall
    /\ \E d \in DayTexts, m \in MonthTexts, y \in YearTexts :
        call' = [fn |-> "getDateFromForm", args |-> <<d, m, y>>,
                 result |-> getDateFromForm(d, m, y)]
    /\ UNCHANGED <<serverVars, pageVars, cookie>>

CallGetTodaysDate ==
    /\ call = NoCall
    /\ \E d \in 1..31, m \in 0..11, y \in {2026} :
        call' = [fn |-> "getTodaysDate", args |-> <<d, m, y>>,
                 result |-> getTodaysDate([date |-> d, month |-> m, year |-> y])]
    /\ UNCHANGED <<serverVars, pageVars, cookie>>

CallCheckAvailable ==
    /\ call = NoCall
    /\ \E room \in UnitRooms, checkin \in UnitDates, checkout \in UnitDates,
          bookings \in SeqsUpTo(UnitBookings, MaxUnitBookings) :
        call' = [fn |-> "checkAvailable", args |-> <<room, checkin, checkout, bookings>>,
                 result |-> checkAvailable(room, checkin, checkout, bookings)]
    /\ UNCHANGED <<serverVars, pageVars, cookie>>

InitUnit ==
    /\ Init
    /\ serverRooms = VisitCatalog
    /\ serverBookings = VisitBookings
    /\ ~storeDefined

NextUnit ==
    \/ CallMakeDateFromXML
    \/ CallGetDateFromForm
    \/ CallGetTodaysDate
    \/ CallCheckAvailable

SpecUnit == InitUnit /\ [][NextUnit]_vars

\* ------------------------------------------------------------------ properties
\* A date in the zero-padded yyyy-mm-dd form: ten characters, digits except
\* for the two dashes.
IsCanonicalDate(s) ==
    /\ Len(s) = 10
    /\ s[5] = "-"
    /\ s[8] = "-"
    /\ \A i \in {1, 2, 3, 4, 6, 7, 9, 10} : IsDigit(s[i])

\* The calendar position of a canonical date: the number yyyymmdd.
DateNumber(s) == DigitsValue(SelectSeq(s, IsDigit))

\* Chronological overlap of a booking with a candidate range, same room.
OverlapsChronologically(b, room, checkin, checkout) ==
    /\ b.number = room
    /\ DateNumber(b.checkin) < DateNumber(checkout)
    /\ DateNumber(b.checkout) > DateNumber(checkin)

\* C1: checkAvailable returns false exactly when some booking of the list, at
\* any position, is for the same room and has checkin < checkout of the range
\* and checkout > checkin of the range; otherwise true.  So no booking for the
\* room means available, and a range starting on a booking's checkout day is
\* available.
C1_CheckAvailableIffNoOverlap ==
    call.fn = "checkAvailable" =>
        LET room == call.args[1]
            checkin == call.args[2]
            checkout == call.args[3]
            bookings == call.args[4]
        IN  (call.result = FALSE) <=>
                \E i \in 1..Len(bookings) :
                    OverlapsChronologically(bookings[i], room, checkin, checkout)

\* The overlapping booking is the last of the list, after one for another room.
C1_Witness ==
    /\ call.fn = "checkAvailable"
    /\ call.result = FALSE
    /\ Len(call.args[4]) = 2
    /\ call.args[4][1].number # call.args[1]
    /\ call.args[4][2].number = call.args[1]

\* C7: every date string produced for comparison (from XML day/month/year
\* texts, from the clock, from the form's select values) is in zero-padded
\* yyyy-mm-dd form, for days 1..31 and months 1..12 given as numbers or as
\* numeric texts, padded or not.
C7_EveryDateCanonical ==
    call.fn \in {"makeDateFromXML", "getDateFromForm", "getTodaysDate"} =>
        IsCanonicalDate(call.result)


\* The options a search for (checkin, checkout) is to add: one for each room
\* of the served catalog with no overlapping booking, in catalog order.
OfferedRooms(checkin, checkout) ==
    LET bookings == parseBookingXML(serverBookings)
        Free(x) == ~\E j \in 1..Len(bookings) :
                        /\ bookings[j].number = FirstText(x.number)
                        /\ StrLess(bookings[j].checkin, checkout)
                        /\ StrLess(checkin, bookings[j].checkout)
        free == SelectSeq(serverRooms, Free)
    IN  [k \in 1..Len(free) |->
            [value |-> FirstText(free[k].number),
             text  |-> <<FirstText(free[k].number), ": ",
                         FirstText(free[k].pricePerNight)>>]]

Completes(i) == i <= Len(runs') /\ runs[i].pc # "done" /\ runs'[i].pc = "done"

\* C2: the step that completes a room search appends to the room list exactly
\* the catalog rooms that are available for the queried range, each once and
\* in catalog order; nothing else changes the list.
C2_SearchOffersAvailableRooms ==
    [][ /\ \A i \in 1..Len(runs) :
            Completes(i) =>
                roomSelection' =
                    roomSelection \o OfferedRooms(runs[i].checkin, runs[i].checkout)
        /\ roomSelection' # roomSelection => \E i \in 1..Len(runs) : Completes(i)
      ]_vars

\* A catalog of three rooms, one of them booked for the range: the two others
\* are offered, in catalog order.
C2_Witness ==
    /\ Len(runs) = 1
    /\ runs[1].pc = "done"
    /\ Len(serverRooms) = 3
    /\ Len(roomSelection) = 2
    /\ roomSelection[1].value = "102"
    /\ roomSelection[2].value = "201"

Today == getTodaysDate(now)

DatesAcceptable(checkin, checkout) ==
    StrLess(checkin, checkout) /\ ~StrLess(checkin, Today)

\* C3: a search is started, and the hidden date fields written, only by a
\* find-room submission whose dates satisfy checkin < checkout and
\* checkin >= today (compared as the strings read); equal dates are rejected
\* with the one-night message and a checkin before today with the past
\* message, no search being started; acceptable dates are accepted.  For dates
\* in canonical form the order is the chronological one.
C3_FindRoomValidation ==
    /\ \A i \in 1..Len(runs) : DatesAcceptable(runs[i].checkin, runs[i].checkout)
    /\ runs = <<>> => checkinDate = <<>> /\ checkoutDate = <<>>
    /\ runs # <<>> => /\ checkinDate = runs[Len(runs)].checkin
                      /\ checkoutDate = runs[Len(runs)].checkout
    /\ lastSubmit.form = "findRoom" =>
        LET checkin == lastSubmit.checkin
            checkout == lastSubmit.checkout
        IN  /\ lastSubmit.started <=> DatesAcceptable(checkin, checkout)
            /\ lastSubmit.started <=> runs # <<>>
            /\ checkout = checkin =>
                    checkoutError = MsgOneNight /\ ~lastSubmit.started
            /\ StrLess(checkin, Today) =>
                    checkinError = MsgPast /\ ~lastSubmit.started
            /\ IsCanonicalDate(checkin) /\ IsCanonicalDate(checkout) =>
                    (lastSubmit.started <=>
                        /\ DateNumber(checkin) < DateNumber(checkout)
                        /\ DateNumber(checkin) >= DateNumber(Today))

\* An accepted submission of two canonical dates.
C3_Witness ==
    /\ lastSubmit.form = "findRoom"
    /\ lastSubmit.started
    /\ IsCanonicalDate(lastSubmit.checkin)
    /\ IsCanonicalDate(lastSubmit.checkout)
    /\ Len(runs) = 1

BookRoomRejected ==
    lastSubmit.form = "bookRoom" /\ Trim(lastSubmit.name) = <<>>

\* C4: a book-room submission whose name is empty after trimming sets the name
\* error, returns false and leaves the stored bookings as they were; the store
\* changes only in a book-room submission whose trimmed name is not empty.
C4_EmptyNameRejected ==
    /\ [](BookRoomRejected =>
            /\ nameError = MsgNoName
            /\ lastSubmit.ret = "false"
            /\ cookie = lastSubmit.cookieBefore)
    /\ [][cookie' # cookie =>
            /\ lastSubmit'.form = "bookRoom"
            /\ Trim(lastSubmit'.name) # <<>>
            /\ lastSubmit'.cookieBefore = cookie]_vars

\* A name of two blanks was submitted.
C4_Witness ==
    /\ lastSubmit.form = "bookRoom"
    /\ lastSubmit.name = <<" ", " ">>
    /\ nameError = MsgNoName

\* C6, as claimed: no submit handler ever returns a value that lets the
\* browser go on with the form submission.
C6_DefaultAlwaysSuppressed ==
    lastSubmit.form # "none" => lastSubmit.ret = "false"

\* C6, amended: submitFindRoom returns false on every path; submitBookRoom
\* returns false exactly when it rejects the name; for an accepted name it
\* returns true when it stores the booking, and where the page does not
\* define the store functions it throws before storing or returning; either
\* way the browser goes on with the form submission.
C6_ReturnValues ==
    /\ lastSubmit.form = "findRoom" => lastSubmit.ret = "false"
    /\ lastSubmit.form = "bookRoom" =>
        /\ lastSubmit.ret = "false" <=> Trim(lastSubmit.name) = <<>>
        /\ lastSubmit.ret = "true" <=> (Trim(lastSubmit.name) # <<>> /\ storeDefined)
        /\ lastSubmit.ret = "true" => cookie # lastSubmit.cookieBefore
        /\ lastSubmit.ret = "threw" => cookie = lastSubmit.cookieBefore
    /\ unloading <=> (lastSubmit.form = "bookRoom" /\ lastSubmit.ret # "false")

\* A booking was stored and the handler returned true.
C6_Witness ==
    /\ lastSubmit.form = "bookRoom"
    /\ lastSubmit.ret = "true"
    /\ cookie # lastSubmit.cookieBefore


BookingsRequested(run) == run.pc \in {"bookings", "bookingsLoaded", "done"}

InFlight(run) == run.pc \in {"rooms", "roomsLoaded", "bookings", "bookingsLoaded"}

\* C8: within a search the bookings request exists only once the catalog
\* request has succeeded and rooms holds the parsed catalog; the filtering
\* (options added, booking form shown) has happened only once bookings holds
\* the parsed bookings as well; a list not yet assigned is never read.
C8_ChainedRequests ==
    /\ \A i \in 1..Len(runs) :
        /\ BookingsRequested(runs[i]) =>
                runs[i].roomsSet /\ runs[i].rooms = parseRoomXML(serverRooms)
        /\ runs[i].pc \in {"bookingsLoaded", "done"} =>
                runs[i].bookingsSet /\ runs[i].bookings = parseBookingXML(serverBookings)
        /\ runs[i].bookingsSet => runs[i].roomsSet
    /\ (bookFormShown \/ roomSelection # <<>>) =>
            \E i \in 1..Len(runs) :
                runs[i].pc = "done" /\ runs[i].roomsSet /\ runs[i].bookingsSet

\* A search ran to its end and offered a room.
C8_Witness ==
    /\ Len(runs) = 1
    /\ runs[1].pc = "done"
    /\ runs[1].roomsSet
    /\ runs[1].bookingsSet
    /\ bookFormShown
    /\ roomSelection # <<>>

\* C9, as claimed: while a search is in flight the find-room form can be
\* submitted again, starting a second search.
C9_ResubmitDuringSearch ==
    (\E i \in 1..Len(runs) : InFlight(runs[i])) => ENABLED SubmitFindRoom

\* C9, amended: a valid submission disables the inputs of the find-room form
\* before its searches start and nothing enables them again, so the form
\* cannot be submitted while a search exists: searches are started only on a
\* page that has none, by one submission, one search for each time the handler
\* was bound (more than one only after BookRooms.setup was called again).
C9_NoSubmissionWhileSearching ==
    /\ [](Len(runs) <= handlers.findRoom)
    /\ [](runs # <<>> => findFormDisabled /\ ~ENABLED SubmitFindRoom)
    /\ [][Len(runs') > Len(runs) =>
            /\ runs = <<>>
            /\ Len(runs') = handlers.findRoom
            /\ lastSubmit'.form = "findRoom"]_vars

\* Two searches in flight, started by the one submission of a form whose
\* handler was bound twice; the form is disabled.
C9_Witness ==
    /\ Len(runs) = 2
    /\ handlers.findRoom = 2
    /\ InFlight(runs[1])
    /\ InFlight(runs[2])
    /\ findFormDisabled

FailedSearch(i) == runs[i].pc = "failed"

\* C10: a search one of whose requests has failed never completes: it stays
\* failed, no option is added to the room list, the booking form stays
\* hidden, the find-room form stays disabled and the searching indicator
\* shown, and neither form can be submitted, so no retry is reached.
C10_FailedSearchStaysStuck ==
    /\ [](\A i \in 1..Len(runs) : FailedSearch(i) =>
            /\ roomSelection = <<>>
            /\ ~bookFormShown
            /\ findFormDisabled
            /\ searchingShown
            /\ ~ENABLED SubmitFindRoom
            /\ ~ENABLED SubmitBookRoom)
    /\ [][\A i \in 1..Len(runs) : FailedSearch(i) =>
            /\ i <= Len(runs')
            /\ runs'[i].pc = "failed"
            /\ roomSelection' = roomSelection
            /\ bookFormShown' = bookFormShown]_vars

\* The bookings request failed after the catalog was loaded.
C10_Witness ==
    /\ Len(runs) = 1
    /\ runs[1].pc = "failed"
    /\ runs[1].roomsSet
    /\ findFormDisabled
    /\ searchingShown

====
